---- MODULE Spec2Model ----
(***************************************************************************)
(* The streaming completion engine of oi: the Ollama stream                *)
(* (internal/ollama/ollama.go), the backend goroutine each exchange        *)
(* starts, and the Bubble Tea orchestrator that polls the stream           *)
(* (mods.go, stream.go).                                                   *)
(*                                                                         *)
(* Two specifications share the stream's operations:                       *)
(*   SpecStream  a client that calls Next/Current/CallTools/Close in any   *)
(*               order the iterator contract allows (Current after a true  *)
(*               Next, CallTools after a false Next, Close at any time);   *)
(*   Spec        the orchestrator of mods.go driving the stream.           *)
(*                                                                         *)
(* The backend (api.Client.Chat of the Ollama library) is an activity that *)
(* hands response units to Stream.fn one at a time and then returns nil or *)
(* an error; the unit with Done set is the last one of its exchange.       *)
(***************************************************************************)
EXTENDS Integers, Sequences, FiniteSets, TLC

\* ------------------------------------------------------------------ bounds
MaxUnits == 2      \* response units the backend hands to fn at most, in all
MaxRounds == 2     \* exchanges opened on one stream at most
MaxStreak == 2     \* consecutive CallTools calls the free client makes at most
MaxRetries == 2    \* Config.MaxRetries, the configured retry limit
MaxRetryLimit == 4 \* the largest retry limit the retry driver is run with

VARIABLES
    request,    \* s.request.Messages: the outbound history ([]api.Message)
    err,        \* s.err: 0 is nil, r > 0 the error exchange r's Chat returned
    done,       \* s.done
    respCh,     \* s.respCh: the identity of the channel (0: no stream yet)
    message,    \* s.message: the assistant-message accumulator
    messages,   \* s.messages: the visible message log ([]proto.Message)
    closed,     \* the channels close() has been applied to
    gor,        \* the goroutine of each exchange (Client.Request, lines 81-85)
    panicked,   \* the runtime panic that ended the process, or "none"
    ret,        \* the last stream call and what it returned
    chunks,     \* contents the successful Current calls returned since factory()
    roundBase,  \* Len(s.messages) when factory() last ran
    nunits,     \* response units handed to fn so far
    streak,     \* free client: CallTools calls in a row
    finished,   \* free client: the channel in use when CallTools first returned
                \* an empty list for a completed round (0: it has not)
    mstate,     \* m.state
    Output,     \* m.Output
    Input,      \* m.Input
    retries,    \* m.retries
    slept,      \* the waits time.Sleep was called with, in milliseconds
    mMessages,  \* m.messages
    mError,     \* m.Error: TRUE once a modsError has been recorded
    cmd,        \* the tea.Cmd that is running, or "none"
    msg,        \* the tea.Msg on its way to Update, or type "none"
    shownBase,  \* the text handed to Update before the current round began
    cancelRequest, \* m.cancelRequest: the contexts whose cancel handles are kept
    cancelled,  \* the contexts whose cancel handle has been invoked
    mConfig,    \* m.Config, as far as the turn setup reads it
    cacheRead,  \* what m.cache.Read last did: ok, and the history it loaded
    toolsErr,   \* mcpTools last returned an error
    quitting,   \* the quit key's quit command runs beside the command that
                \* was already running
    polls       \* the receive commands on the stream in use that Update or
                \* startCompletionCmd has issued and that have not returned

svars == <<request, err, done, respCh, message, messages, closed, gor,
           panicked, ret, chunks, roundBase, nunits>>
hvars == <<streak, finished>>
ovars == <<mstate, Output, Input, retries, slept, mMessages, mError, cmd, msg,
           shownBase>>
cvars == <<cancelRequest, cancelled, quitting, polls>>
evars == <<mConfig, cacheRead, toolsErr>>
vars == <<svars, hvars, ovars, cvars, evars>>

\* ------------------------------------------------------------- value types
Rounds == 1..MaxRounds

RoleSystem == "system"
RoleUser == "user"
RoleAssistant == "assistant"
RoleTool == "tool"

\* A Go string is the sequence of its bytes; Str0 is "".  A byte of an ASCII
\* character is written as that character; "C3" and "A9" are the two bytes
\* of the UTF-8 encoding of one character outside ASCII.
Str0 == <<>>

Indexes == {0, 1}

\* api.ToolCall{Function{Index, Name}} (the arguments are carried through
\* unchanged by every operation and are left out).
ApiToolCall(i) == [Index |-> i, Name |-> "tool"]

\* api.Message
ApiMessage(role, content, calls) ==
    [Role |-> role, Content |-> content, ToolCalls |-> calls]

EmptyMessage == ApiMessage("", Str0, <<>>)

\* api.ChatResponse: Message and Done
Unit(content, calls, d) ==
    [Role |-> RoleAssistant, Content |-> content, ToolCalls |-> calls, Done |-> d]

\* the zero api.ChatResponse a receive on a closed channel yields
ZeroUnit == [Role |-> "", Content |-> Str0, ToolCalls |-> <<>>, Done |-> FALSE]

\* The units a backend hands over as its k-th unit: a text fragment (its
\* text tells its position, so that a lost, repeated or reordered fragment
\* shows), or a tool call with no text, either of them possibly the last
\* (Done); or the bare Done unit.
Letters == <<"a", "b", "c", "d", "e", "f">>
Units(k) == {Unit(<<Letters[k]>>, <<>>, d) : d \in BOOLEAN}
            \cup {Unit(Str0, <<ApiToolCall(i)>>, d) : i \in Indexes, d \in BOOLEAN}
            \cup {Unit(Str0, <<>>, TRUE)}

\* strconv.Itoa / strconv.Atoi on the indexes in use
Digits == <<"0", "1", "2", "3">>
Itoa(i) == Digits[i + 1]
Atoi(s) == IF \E i \in 0..3 : Digits[i + 1] = s
           THEN CHOOSE i \in 0..3 : Digits[i + 1] = s
           ELSE 0

\* proto.ToolCall{ID, Function{Name}, IsError}
ProtoToolCall(id, name, isErr) == [ID |-> id, Name |-> name, IsError |-> isErr]

\* proto.Message
ProtoMessage(role, content, calls) ==
    [Role |-> role, Content |-> content, ToolCalls |-> calls]

MapSeq(s, Op(_)) == [i \in 1..Len(s) |-> Op(s[i])]

RECURSIVE Concat(_)
Concat(ss) == IF ss = <<>> THEN <<>> ELSE Head(ss) \o Concat(Tail(ss))

toProtoToolCall(c) == ProtoToolCall(Itoa(c.Index), c.Name, FALSE)
toProtoMessage(m) ==
    ProtoMessage(m.Role, m.Content, MapSeq(m.ToolCalls, toProtoToolCall))

fromProtoToolCall(c) == [Index |-> Atoi(c.ID), Name |-> c.Name]
fromProtoMessage(m) ==
    ApiMessage(m.Role, m.Content, MapSeq(m.ToolCalls, fromProtoToolCall))
fromProtoMessages(ms) == MapSeq(ms, fromProtoMessage)

\* The tool-invocation callback's outcomes: a result, or an error.
ToolOutcomes == {"ok", "fail"}

\* stream.CallTool: runs the callback and builds the tool-role message and
\* the status of one call.
CallToolMsg(id, name, outcome) ==
    ProtoMessage(RoleTool,
                 IF outcome = "ok" THEN <<"result">> ELSE <<"tool error">>,
                 <<ProtoToolCall(id, name, outcome # "ok")>>)
CallToolStatus(name, outcome) == [Name |-> name, Err |-> outcome # "ok"]

\* proto.ToolCallStatus.String
StatusString(st) == IF st.Err THEN <<"[ran tool: failed]">> ELSE <<"[ran tool]">>

\* -------------------------------------------------------------- goroutines
\* pc: idle (not started), run (inside Chat), send (blocked in fn), ret (Chat
\* has returned), panic; req: the request history the exchange sent; out: the
\* units fn has handed over; unit, ch: the unit fn is sending and the channel
\* it sends on; fin: the exchange has handed over its Done unit.
IdleGor ==
    [pc |-> "idle", req |-> <<>>, out |-> <<>>, unit |-> ZeroUnit, ch |-> 0,
     fin |-> FALSE]
StartGor(req) == [IdleGor EXCEPT !.pc = "run", !.req = req]

\* factory(): lines 77-86.  A fresh channel, cleared flags, a new goroutine
\* running Chat on the request as it now stands.
factory(newRequest, newMessages) ==
    /\ done' = FALSE
    /\ err' = 0
    /\ respCh' = respCh + 1
    /\ gor' = [gor EXCEPT ![respCh + 1] = StartGor(newRequest)]
    /\ chunks' = <<>>
    /\ roundBase' = Len(newMessages)

\* Stream.fn, lines 103-106, as Chat calls it with unit u: the send
\* s.respCh <- resp reads the field s.respCh now; on a closed channel the
\* send panics, otherwise the goroutine blocks until Current receives.
fn(r, u) ==
    /\ panicked = "none"
    /\ gor[r].pc = "run"
    /\ ~gor[r].fin
    /\ nunits < MaxUnits
    /\ nunits' = nunits + 1
    /\ IF respCh \in closed
       THEN /\ panicked' = "send on closed channel"
            /\ gor' = [gor EXCEPT ![r].pc = "panic", ![r].unit = u, ![r].ch = respCh]
       ELSE /\ gor' = [gor EXCEPT ![r].pc = "send", ![r].unit = u, ![r].ch = respCh]
            /\ UNCHANGED panicked
    /\ UNCHANGED <<request, err, done, respCh, message, messages, closed, ret,
                   chunks, roundBase>>

\* Chat returns: lines 82-84.  A non-nil error is stored in s.err.
ChatReturns(r, failed) ==
    /\ panicked = "none"
    /\ gor[r].pc = "run"
    /\ gor' = [gor EXCEPT ![r].pc = "ret"]
    /\ err' = IF failed THEN r ELSE err
    /\ UNCHANGED <<request, done, respCh, message, messages, closed, panicked,
                   ret, chunks, roundBase, nunits>>

\* ------------------------------------------------------- stream operations
\* Stream.Next, lines 198-208
StreamNext == IF err # 0 THEN FALSE ELSE ~done

\* Stream.Err, line 189
Err == err

\* Stream.Messages, line 192
Messages == messages

Senders(ch) == {r \in Rounds : gor[r].pc = "send" /\ gor[r].ch = ch}

\* Fold with the new tool calls put in front of the accumulated ones
FoldCallsFirst(m, resp) ==
    [Role |-> IF m.Role = "" THEN resp.Role ELSE m.Role,
     Content |-> m.Content \o resp.Content,
     ToolCalls |-> resp.ToolCalls \o m.ToolCalls]

\* Fold with the new text put in front of the accumulated text
FoldContentFirst(m, resp) ==
    [Role |-> IF m.Role = "" THEN resp.Role ELSE m.Role,
     Content |-> resp.Content \o m.Content,
     ToolCalls |-> m.ToolCalls \o resp.ToolCalls]

\* the fold of one received unit into the accumulator, lines 172-181
Fold(m, resp) ==
    [Role |-> IF m.Role = "" THEN resp.Role ELSE m.Role,
     Content |-> m.Content \o resp.Content,
     ToolCalls |-> m.ToolCalls \o resp.ToolCalls]

Received(resp) ==
    /\ message' = Fold(message, resp)
    /\ done' = IF resp.Done THEN TRUE ELSE done
    /\ chunks' = Append(chunks, resp.Content)
    /\ ret' = [op |-> "Current", chunk |-> resp.Content, err |-> "nil"]

\* a Current that puts the finalized message into the log itself when it
\* receives the unit with Done set
CurrentFinalizing ==
    /\ IF respCh \in closed
       THEN /\ Received(ZeroUnit)
            /\ UNCHANGED <<gor, messages>>
       ELSE IF Senders(respCh) # {}
       THEN \E r \in Senders(respCh) :
               /\ Received(gor[r].unit)
               /\ gor' = [gor EXCEPT ![r].pc = "run",
                                     ![r].out = Append(@, gor[r].unit),
                                     ![r].fin = gor[r].unit.Done]
               /\ messages' = IF gor[r].unit.Done
                              THEN Append(messages,
                                          toProtoMessage(Fold(message, gor[r].unit)))
                              ELSE messages
       ELSE /\ ret' = [op |-> "Current", chunk |-> Str0, err |-> "ErrNoContent"]
            /\ UNCHANGED <<message, done, chunks, gor, messages>>
    /\ UNCHANGED <<request, err, respCh, closed, panicked, roundBase, nunits>>

\* Stream.Current, lines 163-186: a non-blocking receive.
Current ==
    /\ IF respCh \in closed
       THEN /\ Received(ZeroUnit)
            /\ UNCHANGED gor
       ELSE IF Senders(respCh) # {}
       THEN \E r \in Senders(respCh) :
               /\ Received(gor[r].unit)
               /\ gor' = [gor EXCEPT ![r].pc = "run",
                                     ![r].out = Append(@, gor[r].unit),
                                     ![r].fin = gor[r].unit.Done]
       ELSE /\ ret' = [op |-> "Current", chunk |-> Str0, err |-> "ErrNoContent"]
            /\ UNCHANGED <<message, done, chunks, gor>>
    /\ UNCHANGED <<request, err, respCh, messages, closed, panicked, roundBase,
                   nunits>>

\* Stream.Close, lines 156-160: close(s.respCh) panics on a closed channel,
\* and makes every goroutine blocked sending on the channel panic.
Close ==
    IF respCh \in closed
    THEN /\ panicked' = "close of closed channel"
         /\ ret' = [op |-> "Close", again |-> TRUE]
         /\ UNCHANGED <<request, err, done, respCh, message, messages, closed,
                        gor, chunks, roundBase, nunits>>
    ELSE /\ closed' = closed \cup {respCh}
         /\ done' = TRUE
         /\ gor' = [r \in Rounds |->
                      IF r \in Senders(respCh)
                      THEN [gor[r] EXCEPT !.pc = "panic"] ELSE gor[r]]
         /\ panicked' = IF Senders(respCh) # {}
                        THEN "send on closed channel" ELSE panicked
         /\ ret' = [op |-> "Close", again |-> FALSE]
         /\ UNCHANGED <<request, err, respCh, message, messages, chunks, roundBase,
                        nunits>>

\* a CallTools whose loop stops at the first call whose callback fails
RECURSIVE ToolMsgsAbort(_, _, _)
ToolMsgsAbort(calls, outs, i) ==
    IF i > Len(calls) \/ outs[i] # "ok" THEN <<>>
    ELSE <<CallToolMsg(Itoa(calls[i].Index), calls[i].Name, outs[i])>>
         \o ToolMsgsAbort(calls, outs, i + 1)

\* a CallTools whose loop appends no tool-result message
ToolMsgsNone(calls, outs, i) == <<>>

\* the loop of lines 130-142 over the calls from position i on, the callback
\* of call j ending with outs[j]: the tool-role messages, the statuses and
\* the callback events, in the order the loop produces them.
RECURSIVE ToolMsgs(_, _, _)
ToolMsgs(calls, outs, i) ==
    IF i > Len(calls) THEN <<>>
    ELSE <<CallToolMsg(Itoa(calls[i].Index), calls[i].Name, outs[i])>>
         \o ToolMsgs(calls, outs, i + 1)

RECURSIVE ToolStatuses(_, _, _)
ToolStatuses(calls, outs, i) ==
    IF i > Len(calls) THEN <<>>
    ELSE <<CallToolStatus(calls[i].Name, outs[i])>>
         \o ToolStatuses(calls, outs, i + 1)

RECURSIVE ToolEvents(_, _)
ToolEvents(calls, i) ==
    IF i > Len(calls) THEN <<>>
    ELSE <<[ev |-> "call", index |-> calls[i].Index],
           [ev |-> "return", index |-> calls[i].Index]>>
         \o ToolEvents(calls, i + 1)

\* CallTools that puts the assistant message in front of the history
WithAssistantFront(hist, m) == IF done THEN <<m>> \o hist ELSE hist

\* CallTools that never records the assistant message
WithAssistantNever(hist, m) == hist

\* lines 114-119: the finalized assistant message enters both histories
WithAssistant(hist, m) == IF done THEN Append(hist, m) ELSE hist

\* CallTools that takes every message to carry tool calls
NoToolCallsNever(m) == FALSE

\* line 122: the message carries no tool calls
NoToolCalls(m) == Len(m.ToolCalls) = 0

\* CallTools that leaves the accumulator as it is
ResetMessageKept == message

\* line 147: the accumulator after the reset
ResetMessage == EmptyMessage

\* a loop that leaves the tool results out of the request history
RequestResultsNone(tool) == <<>>

\* line 139: the tool results as they enter the request history
RequestResults(tool) == MapSeq(tool, fromProtoMessage)

\* Stream.CallTools, lines 110-153, the callbacks ending as outs says.
CallTools(outs) ==
    LET msgs1 == WithAssistant(messages, toProtoMessage(message))
        req1 == WithAssistant(request, message)
        calls == message.ToolCalls
        tool == ToolMsgs(calls, outs, 1)
    IN  IF NoToolCalls(message)
        THEN /\ messages' = msgs1
             /\ request' = req1
             /\ ret' = [op |-> "CallTools", statuses |-> <<>>, events |-> <<>>]
             /\ UNCHANGED <<err, done, respCh, message, closed, gor, panicked,
                            chunks, roundBase, nunits>>
        ELSE /\ messages' = msgs1 \o tool
             /\ request' = req1 \o RequestResults(tool)
             /\ message' = ResetMessage
             /\ factory(req1 \o RequestResults(tool), msgs1 \o tool)
             /\ ret' = [op |-> "CallTools",
                        statuses |-> ToolStatuses(calls, outs, 1),
                        events |-> ToolEvents(calls, 1)]
             /\ UNCHANGED <<closed, panicked, nunits>>

\* Client.Request, lines 50-89, on the history msgs.
Request(msgs) ==
    /\ request' = fromProtoMessages(msgs)
    /\ messages' = msgs
    /\ message' = EmptyMessage
    /\ done' = FALSE
    /\ err' = 0
    /\ respCh' = 1
    /\ closed' = {}
    /\ gor' = [r \in Rounds |-> IF r = 1 THEN StartGor(fromProtoMessages(msgs))
                                         ELSE IdleGor]
    /\ chunks' = <<>>
    /\ roundBase' = Len(msgs)
    /\ ret' = [op |-> "Request"]
    /\ UNCHANGED <<panicked, nunits>>

\* the tea.Msg values of mods.go
NoMsg == [type |-> "none"]
cacheDetailsMsg(readID, model) ==
    [type |-> "cacheDetailsMsg", ReadID |-> readID, Model |-> model]
completionInput(content) == [type |-> "completionInput", content |-> content]
\* a completionOutput that always carries the stream
completionOutputStreaming(content, hasStream) ==
    [type |-> "completionOutput", content |-> content, stream |-> TRUE]
completionOutput(content, hasStream) ==
    [type |-> "completionOutput", content |-> content, stream |-> hasStream]
modsError == [type |-> "modsError"]

\* ---------------------------------------------------------------- contexts
\* m.ctx, the context the program was constructed with (mods.go line 98); a
\* context made by context.WithTimeout(m.ctx, MCPTimeout) is named by the
\* position its cancel handle takes in m.cancelRequest.
RootCtx == 0

\* context.WithTimeout followed by the append of its cancel handle, mods.go
\* lines 316-317 and 339-340: the handles after n further contexts
WithTimeout(handles, n) == handles \o [i \in 1..n |-> Len(handles) + i]

\* the contexts whose cancel handle m.cancelRequest holds; they are the
\* timeout-bound contexts the orchestrator has made
Handles == {cancelRequest[i] : i \in 1..Len(cancelRequest)}

\* the context client.Request is called with, mods.go line 353
RequestCtx == RootCtx

\* the context exchange r's Chat runs under: the ctx the factory closure of
\* Request captured, ollama.go lines 50 and 82
ExchangeCtx(r) == RequestCtx

\* ---------------------------------------------------------- configuration
\* the role entries of the configuration: one role of two entries
Roles == [r \in {"shell"} |-> << <<"1">>, <<"2">> >>]

\* The configuration of the run: a new conversation read from standard
\* input, with no cache to read, no format text, no role and no prefix.
Config ==
    [NoCache |-> FALSE, cacheReadFromID |-> "", Format |-> FALSE,
     FormatText |-> Str0, Role |-> "", Roles |-> Roles, Prefix |-> Str0,
     NoLimit |-> FALSE, MaxInputChars |-> 8, ModelMaxChars |-> 0,
     MaxRetries |-> MaxRetries, Model |-> "m", Models |-> {"m"},
     IncludePromptArgs |-> FALSE, IncludePrompt |-> 0]

\* no cache read has been made
NoRead == [ok |-> TRUE, messages |-> <<>>]

\* ------------------------------------------------------------ free client
UserMessage == ProtoMessage(RoleUser, <<"q">>, <<>>)

InitStream ==
    /\ request = fromProtoMessages(<<UserMessage>>)
    /\ messages = <<UserMessage>>
    /\ message = EmptyMessage
    /\ done = FALSE
    /\ err = 0
    /\ respCh = 1
    /\ closed = {}
    /\ gor = [r \in Rounds |-> IF r = 1
                               THEN StartGor(fromProtoMessages(<<UserMessage>>))
                               ELSE IdleGor]
    /\ panicked = "none"
    /\ ret = [op |-> "Request"]
    /\ chunks = <<>>
    /\ roundBase = 1
    /\ nunits = 0
    /\ streak = 0
    /\ finished = 0
    /\ mstate = "startState"
    /\ Output = Str0
    /\ Input = Str0
    /\ retries = 0
    /\ slept = <<>>
    /\ mMessages = <<>>
    /\ mError = FALSE
    /\ cmd = "none"
    /\ msg = NoMsg
    /\ shownBase = Str0
    /\ cancelRequest = <<>>
    /\ cancelled = {}
    /\ quitting = FALSE
    /\ polls = 0
    /\ mConfig = Config
    /\ cacheRead = NoRead
    /\ toolsErr = FALSE

BackendSends ==
    \E r \in Rounds : \E u \in Units(Len(gor[r].out) + 1) :
        fn(r, u) /\ UNCHANGED <<hvars, ovars, cvars, evars>>

BackendReturns ==
    \E r \in Rounds, failed \in BOOLEAN : ChatReturns(r, failed) /\ UNCHANGED <<hvars, ovars, cvars, evars>>

\* for s.Next() { s.Current() }: one turn of the polling loop
ClientPoll ==
    /\ panicked = "none"
    /\ respCh \notin closed
    /\ StreamNext
    /\ Current
    /\ streak' = 0
    /\ UNCHANGED <<finished, ovars, cvars, evars>>

\* Next() has returned false: CallTools
ClientCallTools ==
    /\ panicked = "none"
    /\ respCh \notin closed
    /\ ~StreamNext
    /\ streak < MaxStreak
    /\ ~NoToolCalls(message) => respCh < MaxRounds
    /\ \E outs \in [1..Len(message.ToolCalls) -> ToolOutcomes] : CallTools(outs)
    /\ streak' = IF Len(message.ToolCalls) = 0 THEN streak + 1 ELSE 0
    /\ finished' = IF finished = 0 /\ Len(message.ToolCalls) = 0 /\ done
                   THEN respCh ELSE finished
    /\ UNCHANGED <<ovars, cvars, evars>>

ClientClose ==
    /\ panicked = "none"
    /\ Close
    /\ streak' = 0
    /\ UNCHANGED <<finished, ovars, cvars, evars>>

NextStream ==
    \/ BackendSends
    \/ BackendReturns
    \/ ClientPoll
    \/ ClientCallTools
    \/ ClientClose

SpecStream == InitStream /\ [][NextStream]_vars

\* ----------------------------------------------------------- orchestrator
\* strings.TrimSpace
IsSpace(c) == c \in {" ", "\n", "\t"}
RECURSIVE TrimLeft(_)
TrimLeft(t) == IF t # <<>> /\ IsSpace(Head(t)) THEN TrimLeft(Tail(t)) ELSE t
RECURSIVE TrimRight(_)
TrimRight(t) ==
    IF t # <<>> /\ IsSpace(t[Len(t)]) THEN TrimRight(SubSeq(t, 1, Len(t) - 1)) ELSE t
TrimSpace(t) == TrimRight(TrimLeft(t))

\* removeWhitespace, mods.go lines 542-547
removeWhitespace(t) == IF TrimSpace(t) = Str0 THEN Str0 ELSE t

\* increaseIndent, mods.go lines 572-578: a tab in front of every line
RECURSIVE indentLines(_)
indentLines(t) ==
    IF t = <<>> THEN <<>>
    ELSE (IF Head(t) = "\n" THEN <<"\n", "\t">> ELSE <<Head(t)>>)
         \o indentLines(Tail(t))
increaseIndent(t) == <<"\t">> \o indentLines(t)

\* readStdinCmd, mods.go lines 482-493, on what standard input holds: a
\* terminal gives the empty content, piped bytes are indented
stdinContent(tty, bytes) == IF tty THEN Str0 ELSE increaseIndent(bytes)

\* What the piped input can be.
StdinContents == {stdinContent(FALSE, <<"q">>)}

\* loadMsg on a role entry that is plain text
loadMsg(t) == t

\* stream.go line 15: the setup reads the cache
readsCache(c) == ~c.NoCache /\ c.cacheReadFromID # ""

\* a setup that takes every cache read to succeed
cacheReadFailsNever(c, cacheOK) == FALSE

\* stream.go lines 15-16: the read is made and fails
cacheReadFails(c, cacheOK) == readsCache(c) /\ ~cacheOK

\* stream.go lines 31-36: the format instruction
formatSetup(c) ==
    IF c.Format /\ c.FormatText # Str0
    THEN <<ProtoMessage(RoleSystem, c.FormatText, <<>>)>>
    ELSE <<>>

\* stream.go lines 38-59: the messages of the configured role
roleKnown(c) == c.Role = "" \/ c.Role \in DOMAIN c.Roles
roleSetup(c) ==
    IF c.Role # "" /\ roleKnown(c)
    THEN [i \in 1..Len(c.Roles[c.Role]) |->
            ProtoMessage(RoleSystem, loadMsg(c.Roles[c.Role][i]), <<>>)]
    ELSE <<>>

\* a setup that prepends the preamble to a loaded history too
preambleAlways(c, loaded) == formatSetup(c) \o roleSetup(c)

\* a setup that puts the role messages before the format instruction
preambleRoleFirst(c, loaded) ==
    IF Len(loaded) = 0 THEN roleSetup(c) \o formatSetup(c) ELSE <<>>

\* stream.go lines 30-60: the preamble of a new conversation
preamble(c, loaded) ==
    IF Len(loaded) = 0 THEN formatSetup(c) \o roleSetup(c) ELSE <<>>

\* mods.go lines 312-314: the limit of the resolved model, or the configured
\* default when the model sets none
MaxChars(c) == IF c.ModelMaxChars = 0 THEN c.MaxInputChars ELSE c.ModelMaxChars

\* stream.go lines 63-65: the prefix and the content combined
combinedContent(c, content) ==
    IF c.Prefix # Str0
    THEN TrimSpace(c.Prefix \o <<"\n", "\n">> \o content)
    ELSE content

\* stream.go lines 63-70: the content of the user message; len counts bytes
\* and the slice expression cuts at a byte position
userContent(c, content, maxChars) ==
    LET combined == combinedContent(c, content)
    IN  IF ~c.NoLimit /\ Len(combined) > maxChars
        THEN SubSeq(combined, 1, maxChars)
        ELSE combined

\* a setup that does not empty m.messages first: with no conversation read,
\* the new turn is built on what m.messages held
setupStreamContextKeeping(c, cacheOK, cached, content, maxChars) ==
    LET loaded == IF readsCache(c) THEN cached ELSE mMessages
    IN  IF cacheReadFails(c, cacheOK)
        THEN [err |-> TRUE, messages |-> <<>>]
        ELSE IF Len(loaded) = 0 /\ ~roleKnown(c)
        THEN [err |-> TRUE, messages |-> loaded \o formatSetup(c)]
        ELSE [err |-> FALSE,
              messages |-> loaded \o preamble(c, loaded)
                           \o <<ProtoMessage(RoleUser,
                                              userContent(c, content, maxChars),
                                              <<>>)>>]

\* setupStreamContext, stream.go lines 10-79, on the history the cache holds
\* (cacheOK: the read succeeds): the error flag and m.messages.
setupStreamContext(c, cacheOK, cached, content, maxChars) ==
    LET loaded == IF readsCache(c) THEN cached ELSE <<>>
    IN  IF cacheReadFails(c, cacheOK)
        THEN [err |-> TRUE, messages |-> <<>>]
        ELSE IF Len(loaded) = 0 /\ ~roleKnown(c)
        THEN [err |-> TRUE, messages |-> loaded \o formatSetup(c)]
        ELSE [err |-> FALSE,
              messages |-> loaded \o preamble(c, loaded)
                           \o <<ProtoMessage(RoleUser,
                                              userContent(c, content, maxChars),
                                              <<>>)>>]

\* what m.cache.Read can do when the setup calls it: fail, or load the
\* saved conversation
SavedHistory ==
    <<ProtoMessage(RoleUser, <<"p">>, <<>>),
      ProtoMessage(RoleAssistant, <<"r">>, <<>>)>>
CacheReads == {[ok |-> FALSE, messages |-> <<>>],
               [ok |-> TRUE, messages |-> SavedHistory]}

\* the conversation findCacheOpsDetails resolves to read: none, or a saved one
ReadIDs == {"", "c1"}

\* the model findCacheOpsDetails settles on, mods.go lines 410-425: the
\* configured one, or the one the conversation found records, which the
\* settings may no longer hold
FoundModels(c, readID) == IF readID = "" THEN {c.Model} ELSE {c.Model, "gone"}

\* resolveModel, mods.go lines 580-615: the model is one the ollama API of
\* the settings holds
resolveModel(c) == c.Model \in c.Models

Init ==
    /\ request = <<>>
    /\ messages = <<>>
    /\ message = EmptyMessage
    /\ done = FALSE
    /\ err = 0
    /\ respCh = 0
    /\ closed = {}
    /\ gor = [r \in Rounds |-> IdleGor]
    /\ panicked = "none"
    /\ ret = [op |-> "none"]
    /\ chunks = <<>>
    /\ roundBase = 0
    /\ nunits = 0
    /\ streak = 0
    /\ finished = 0
    /\ mstate = "startState"
    /\ Output = Str0
    /\ Input = Str0
    /\ retries = 0
    /\ slept = <<>>
    /\ mMessages = <<>>
    /\ mError = FALSE
    /\ cmd = "findCacheOpsDetails"
    /\ msg = NoMsg
    /\ shownBase = Str0
    /\ cancelRequest = <<>>
    /\ cancelled = {}
    /\ quitting = FALSE
    /\ polls = 0
    /\ mConfig = Config
    /\ cacheRead = NoRead
    /\ toolsErr = FALSE

\* Mods.Init and findCacheOpsDetails, mods.go lines 116-118 and 404-465
findCacheOpsDetails ==
    /\ cmd = "findCacheOpsDetails"
    /\ cmd' = "none"
    /\ \E readID \in ReadIDs : \E model \in FoundModels(mConfig, readID) :
           msg' = cacheDetailsMsg(readID, model)
    /\ UNCHANGED <<svars, hvars, evars, cvars, mstate, Output, Input, retries, slept, mMessages,
                   mError, shownBase>>

\* Update on a cacheDetailsMsg, mods.go lines 124-136 (Update is called
\* while the program runs: here and in every Update below)
UpdateCacheDetails ==
    /\ cmd # "exit"
    /\ msg.type = "cacheDetailsMsg"
    /\ mConfig' = [mConfig EXCEPT !.cacheReadFromID = msg.ReadID,
                                  !.Model = msg.Model]
    /\ mstate' = "configLoadedState"
    /\ cmd' = "readStdinCmd"
    /\ msg' = NoMsg
    /\ UNCHANGED <<svars, hvars, cvars, cacheRead, toolsErr, Output, Input, retries, slept, mMessages, mError,
                   shownBase>>

\* readStdinCmd, mods.go lines 482-493
readStdinCmd ==
    /\ cmd = "readStdinCmd"
    /\ \E content \in StdinContents : msg' = completionInput(content)
    /\ cmd' = "none"
    /\ UNCHANGED <<svars, hvars, evars, cvars, mstate, Output, Input, retries, slept,
                   mMessages, mError, shownBase>>

\* strings.Join(strings.Split(t, "\n")[0:n], "\n") for n >= 1: the first n
\* lines of t
RECURSIVE firstLines(_, _)
firstLines(t, n) ==
    IF t = <<>> THEN <<>>
    ELSE IF Head(t) = "\n"
    THEN (IF n = 1 THEN <<>> ELSE <<"\n">> \o firstLines(Tail(t), n - 1))
    ELSE <<Head(t)>> \o firstLines(Tail(t), n)

\* mods.go lines 156-166: the prompt Update puts into the output
includedPrompt(c, input) ==
    (IF c.IncludePromptArgs THEN c.Prefix \o <<"\n", "\n">> ELSE Str0)
    \o (IF c.IncludePrompt > 0
        THEN firstLines(input, c.IncludePrompt) \o <<"\n">>
        ELSE Str0)

\* an appendToOutput that replaces the output by the new text
appendToOutputReplacing(t) == Output' = t

\* appendToOutput, mods.go lines 517-518
appendToOutput(t) == Output' = Output \o t

\* Update on a completionInput, mods.go lines 138-168 (none of the modes
\* that only list, show or delete is asked for)
UpdateCompletionInput ==
    /\ cmd # "exit"
    /\ msg.type = "completionInput"
    /\ Input' = IF msg.content # Str0 THEN removeWhitespace(msg.content) ELSE Input
    /\ IF Input' = Str0 /\ mConfig.Prefix = Str0
       THEN /\ cmd' = "quit"
            /\ UNCHANGED <<mstate, Output>>
       ELSE /\ appendToOutput(includedPrompt(mConfig, Input'))
            /\ mstate' = "requestState"
            /\ cmd' = "startCompletionCmd"
    /\ msg' = NoMsg
    /\ UNCHANGED <<svars, hvars, evars, cvars, retries, slept, mMessages, mError,
                   shownBase>>

\* a retry driver that never gives up
retryAlways(content) ==
    /\ retries' = retries + 1
    /\ slept' = Append(slept, 100 * 2^(retries + 1))
    /\ msg' = completionInput(content)

\* the backoff before the resubmission that follows the n-th fatal error,
\* mods.go line 264, in milliseconds
Wait(n) == 100 * 2^n

retry(content) ==
    /\ retries' = retries + 1
    /\ IF retries + 1 >= mConfig.MaxRetries
       THEN /\ msg' = modsError
            /\ UNCHANGED slept
       ELSE /\ slept' = Append(slept, Wait(retries + 1))
            /\ msg' = completionInput(content)

\* handleRequestError, the errh of mods.go lines 356-358: a fatal turn error
\* goes to the retry driver with the input of the turn.
handleRequestError == retry(Input)

\* mcpTools: it lists the tools or fails, and its error is a modsError
mcpToolsFails == BOOLEAN

\* a setup error handed to the retry driver
setupErrorRetried == handleRequestError

\* the 'return err' of mods.go lines 281-283, 319-322 and 324-326: the error
\* of the setup is the message of the command
setupError == msg' = modsError /\ UNCHANGED <<retries, slept>>

\* startCompletionCmd, mods.go lines 269-353: the model is resolved (lines
\* 279-283), the timeout context made (316-317), the tools listed (319-322),
\* the turn set up (which reads the cache if it is to) and client.Request
\* called; the first receive step of lines 354-359 follows.  No proxy is
\* configured and ollama.New succeeds.
startCompletionCmd ==
    /\ panicked = "none"
    /\ cmd = "startCompletionCmd"
    /\ IF ~resolveModel(mConfig)
       THEN /\ setupError
            /\ cmd' = "none"
            /\ UNCHANGED <<svars, shownBase, cancelRequest, cacheRead, toolsErr,
                           mMessages, polls>>
       ELSE /\ cancelRequest' = WithTimeout(cancelRequest, 1)
            /\ \E failed \in mcpToolsFails : toolsErr' = failed
            /\ IF toolsErr'
               THEN /\ setupError
                    /\ cmd' = "none"
                    /\ UNCHANGED <<svars, shownBase, cacheRead, mMessages, polls>>
               ELSE /\ IF readsCache(mConfig)
                       THEN \E c \in CacheReads : cacheRead' = c
                       ELSE UNCHANGED cacheRead
                    /\ LET setup == setupStreamContext(mConfig, cacheRead'.ok,
                                                       cacheRead'.messages, Input,
                                                       MaxChars(mConfig))
                       IN  /\ mMessages' = setup.messages
                           /\ IF setup.err
                              THEN /\ setupError
                                   /\ cmd' = "none"
                                   /\ UNCHANGED <<svars, shownBase, polls>>
                              ELSE /\ Request(setup.messages)
                                   /\ polls' = 1
                                   /\ shownBase' = Output
                                   /\ cmd' = "receive"
                                   /\ UNCHANGED <<msg, retries, slept>>
    /\ UNCHANGED <<hvars, mConfig, cancelled, quitting, mstate, Output, Input,
                   mError>>

\* the function receiveCompletionStreamCmd made returns its message, mods.go
\* lines 364-397: the receive command is over
returned == polls' = polls - 1

\* an Update that answers a completionOutput with two receive commands
followUpTwice == polls' = polls + 2

\* mods.go lines 179-182: Update appends one receive command, on the stream
\* the message carries, to the commands it returns
followUp == polls' = polls + 1

\* a receive step that skips the error check
StreamFailedNever == FALSE

\* mods.go line 378: the stream reports an error
StreamFailed == Err # 0

\* receiveCompletionStreamCmd, mods.go lines 365-366 and 378-397: Next, then
\* Current, or Err, or CallTools.  Each tool call runs the ToolCaller of
\* mods.go lines 338-342, which makes one more timeout context.
receiveNext ==
    /\ panicked = "none"
    /\ cmd = "receive"
    /\ IF StreamNext
       THEN /\ Current
            /\ cmd' = "receiveCurrent"
            /\ UNCHANGED <<msg, retries, slept, mMessages, shownBase, cancelRequest,
                           polls>>
       ELSE IF StreamFailed
       THEN /\ handleRequestError
            /\ cmd' = "none"
            /\ returned
            /\ UNCHANGED <<svars, mMessages, shownBase, cancelRequest>>
       ELSE /\ ~NoToolCalls(message) => respCh < MaxRounds
            /\ \E outs \in [1..Len(message.ToolCalls) -> ToolOutcomes] :
                   CallTools(outs)
            /\ cancelRequest' = WithTimeout(cancelRequest, Len(message.ToolCalls))
            /\ IF Len(ret'.statuses) = 0
               THEN /\ mMessages' = messages'
                    /\ msg' = completionOutput(Str0, FALSE)
                    /\ UNCHANGED shownBase
               ELSE /\ msg' = completionOutput(
                                 Concat(MapSeq(ret'.statuses, StatusString)), TRUE)
                    /\ shownBase' = Output \o msg'.content
                    /\ UNCHANGED mMessages
            /\ cmd' = "none"
            /\ returned
            /\ UNCHANGED <<retries, slept>>
    /\ UNCHANGED <<hvars, evars, cancelled, quitting, mstate, Output, Input,
                   mError>>

\* a receive step that takes every error of Current to be fatal
FatalCurrentAlways(r) == r.err # "nil"

\* the error Current returned is fatal: mods.go line 367
FatalCurrent(r) == r.err # "nil" /\ r.err # "ErrNoContent"

\* receiveCompletionStreamCmd, mods.go lines 367-375: what Current returned
\* goes to Update, or closes the stream.
receiveCurrent ==
    /\ panicked = "none"
    /\ cmd = "receiveCurrent"
    /\ IF FatalCurrent(ret)
       THEN /\ Close
            /\ handleRequestError
       ELSE /\ msg' = completionOutput(ret.chunk, TRUE)
            /\ UNCHANGED <<svars, retries, slept>>
    /\ cmd' = "none"
    /\ returned
    /\ UNCHANGED <<hvars, evars, cancelRequest, cancelled, quitting, mstate, Output,
                   Input, mMessages, mError, shownBase>>

\* Update on a completionOutput, mods.go lines 169-182
UpdateCompletionOutput ==
    /\ cmd # "exit"
    /\ msg.type = "completionOutput"
    /\ IF ~msg.stream
       THEN /\ mstate' = "doneState"
            /\ cmd' = "quit"
            /\ UNCHANGED <<Output, polls>>
       ELSE /\ IF msg.content # Str0
               THEN appendToOutput(msg.content) /\ mstate' = "responseState"
               ELSE UNCHANGED <<Output, mstate>>
            /\ cmd' = "receive"
            /\ followUp
    /\ msg' = NoMsg
    /\ UNCHANGED <<svars, hvars, evars, cancelRequest, cancelled, quitting, Input,
                   retries, slept, mMessages, mError, shownBase>>

\* Update on a modsError, mods.go lines 183-186
UpdateModsError ==
    /\ cmd # "exit"
    /\ msg.type = "modsError"
    /\ mError' = TRUE
    /\ mstate' = "errorState"
    /\ cmd' = "quit"
    /\ msg' = NoMsg
    /\ UNCHANGED <<svars, hvars, evars, cvars, Output, Input, retries, slept, mMessages,
                   shownBase>>

\* Update on the quit key, mods.go lines 192-197, pressed while no other
\* message is waiting and no receive command is half-way: the quit command
\* is issued, and a command that has not begun is not run before the
\* program ends.
UpdateKeyMsg ==
    /\ panicked = "none"
    /\ msg.type = "none"
    /\ cmd \notin {"quit", "exit", "receiveCurrent"}
    /\ mstate' = "doneState"
    /\ cmd' = "quit"
    /\ UNCHANGED <<svars, hvars, evars, cvars, Output, Input, retries, slept, mMessages,
                   mError, msg, shownBase>>

\* Update on the quit key, mods.go lines 192-197, pressed while a command is
\* running or its message is waiting: the state is set and the quit command
\* is issued; Bubble Tea runs it beside the command already running, and
\* hands Update the message of whichever ends first.
UpdateKeyMsgRunning ==
    /\ panicked = "none"
    /\ cmd \notin {"quit", "exit"}
    /\ ~quitting
    /\ mstate' = "doneState"
    /\ quitting' = TRUE
    /\ UNCHANGED <<svars, hvars, evars, cancelRequest, cancelled, polls, Output,
                   Input, retries, slept, mMessages, mError, cmd, msg, shownBase>>

\* Mods.quit, mods.go lines 252-257: every handle of m.cancelRequest is
\* invoked, and the program ends (Bubble Tea handles no message after the
\* quit message)
quit ==
    /\ cmd = "quit" \/ (quitting /\ cmd # "exit")
    /\ cancelled' = cancelled \cup Handles
    /\ cmd' = "exit"
    /\ UNCHANGED <<svars, hvars, evars, cancelRequest, quitting, polls, mstate,
                   Output, Input, retries, slept, mMessages, mError, msg,
                   shownBase>>

\* the backend goroutines run until the program has ended
Running == cmd # "exit"

Next ==
    \/ findCacheOpsDetails
    \/ UpdateCacheDetails
    \/ readStdinCmd
    \/ UpdateCompletionInput
    \/ startCompletionCmd
    \/ receiveNext
    \/ receiveCurrent
    \/ UpdateCompletionOutput
    \/ UpdateModsError
    \/ UpdateKeyMsg
    \/ quit
    \/ (Running /\ BackendSends)
    \/ (Running /\ BackendReturns)

Spec == Init /\ [][Next]_vars

\* The same run with a quit key that can also be pressed while a command is
\* running or its message is on the way to Update.
NextQuit ==
    \/ Next
    \/ UpdateKeyMsgRunning

SpecQuit == Init /\ [][NextQuit]_vars

\* ----------------------------------------------------------- retry driver
\* The orchestrator under every retry limit 0..MaxRetryLimit, with a role
\* that is or is not defined and a model the settings hold or not, with the
\* first line of the prompt included in the output or not, and with
\* a backend whose exchanges hand over nothing: Chat returns, with an error
\* or without.
RetryLimits == 0..MaxRetryLimit
RetryRoles == {"", "shell", "nobody"}
RetryModels == {"m", "x"}
RetryIncludes == {0, 1}

InitRetry ==
    /\ request = <<>>
    /\ messages = <<>>
    /\ message = EmptyMessage
    /\ done = FALSE
    /\ err = 0
    /\ respCh = 0
    /\ closed = {}
    /\ gor = [r \in Rounds |-> IdleGor]
    /\ panicked = "none"
    /\ ret = [op |-> "none"]
    /\ chunks = <<>>
    /\ roundBase = 0
    /\ nunits = 0
    /\ streak = 0
    /\ finished = 0
    /\ mstate = "startState"
    /\ Output = Str0
    /\ Input = Str0
    /\ retries = 0
    /\ slept = <<>>
    /\ mMessages = <<>>
    /\ mError = FALSE
    /\ cmd = "findCacheOpsDetails"
    /\ msg = NoMsg
    /\ shownBase = Str0
    /\ cancelRequest = <<>>
    /\ cancelled = {}
    /\ quitting = FALSE
    /\ polls = 0
    /\ \E n \in RetryLimits, role \in RetryRoles, model \in RetryModels,
          lines \in RetryIncludes :
           mConfig = [Config EXCEPT !.MaxRetries = n, !.Role = role,
                                    !.Model = model, !.IncludePrompt = lines]
    /\ cacheRead = NoRead
    /\ toolsErr = FALSE

NextRetry ==
    \/ findCacheOpsDetails
    \/ UpdateCacheDetails
    \/ readStdinCmd
    \/ UpdateCompletionInput
    \/ startCompletionCmd
    \/ receiveNext
    \/ receiveCurrent
    \/ UpdateCompletionOutput
    \/ UpdateModsError
    \/ UpdateKeyMsg
    \/ quit
    \/ (Running /\ BackendReturns)

SpecRetry == InitRetry /\ [][NextRetry]_vars

\* The same with a backend that always fails: the Chat of every exchange
\* returns an error.  Bubble Tea runs every command it was given and hands
\* every message to Update, and the goroutine of an exchange is scheduled;
\* nothing makes the user press the quit key.
BackendFails ==
    \E r \in Rounds : ChatReturns(r, TRUE) /\ UNCHANGED <<hvars, ovars, cvars, evars>>

NextFailing ==
    \/ findCacheOpsDetails
    \/ UpdateCacheDetails
    \/ readStdinCmd
    \/ UpdateCompletionInput
    \/ startCompletionCmd
    \/ receiveNext
    \/ receiveCurrent
    \/ UpdateCompletionOutput
    \/ UpdateModsError
    \/ UpdateKeyMsg
    \/ quit
    \/ (Running /\ BackendFails)

FairFailing ==
    /\ WF_vars(findCacheOpsDetails)
    /\ WF_vars(UpdateCacheDetails)
    /\ WF_vars(readStdinCmd)
    /\ WF_vars(UpdateCompletionInput)
    /\ WF_vars(startCompletionCmd)
    /\ WF_vars(receiveNext)
    /\ WF_vars(receiveCurrent)
    /\ WF_vars(UpdateCompletionOutput)
    /\ WF_vars(UpdateModsError)
    /\ WF_vars(quit)
    /\ WF_vars(Running /\ BackendFails)

SpecRetryFair == InitRetry /\ [][NextFailing]_vars /\ FairFailing

\* ------------------------------------------------------------- turn setup
\* The setup of a turn on its own: the configuration, what the cache holds
\* and the new content are drawn at the start, and setupStreamContext is
\* applied once, as startCompletionCmd applies it (mods.go lines 312-326).
\* Update has let the turn begin (mods.go line 142: the input or the prefix
\* is not empty).  The content is taken from m.Input: the command is made
\* with msg.content, which differs from m.Input only when it is all
\* whitespace, and then a prefix is set and the trimmed combination is the
\* same.
SetupConfigs ==
    [NoCache : BOOLEAN, cacheReadFromID : {"", "c1"}, Format : BOOLEAN,
     FormatText : {Str0, <<"f">>}, Role : {"", "shell", "nobody"},
     Roles : {Roles}, Prefix : {Str0, <<"p">>, <<" ">>}, NoLimit : BOOLEAN,
     MaxInputChars : {1, 8}, ModelMaxChars : {0, 2}, MaxRetries : {MaxRetries},
     Model : {"m"}, Models : {{"m"}}, IncludePromptArgs : {FALSE},
     IncludePrompt : {0}]

SetupHistories ==
    {<<>>, SavedHistory,
     <<ProtoMessage(RoleSystem, <<"s">>, <<>>),
       ProtoMessage(RoleUser, <<"p">>, <<>>)>>}

SetupCacheReads ==
    {[ok |-> FALSE, messages |-> <<>>]}
    \cup {[ok |-> TRUE, messages |-> h] : h \in SetupHistories}

\* what standard input can hold when it is piped
SetupStdin ==
    {Str0, <<"q">>, <<"q", "\n">>, <<"q", "r">>, <<" ">>, <<"C3", "A9">>}

\* the contents a completionInput can carry (mods.go lines 486-492), and the
\* inputs Update keeps of them (lines 139-141)
SetupContents ==
    {stdinContent(TRUE, Str0)} \cup {stdinContent(FALSE, b) : b \in SetupStdin}
SetupInputs == {removeWhitespace(t) : t \in SetupContents}

InitSetup ==
    /\ request = <<>>
    /\ messages = <<>>
    /\ message = EmptyMessage
    /\ done = FALSE
    /\ err = 0
    /\ respCh = 0
    /\ closed = {}
    /\ gor = [r \in Rounds |-> IdleGor]
    /\ panicked = "none"
    /\ ret = [op |-> "none"]
    /\ chunks = <<>>
    /\ roundBase = 0
    /\ nunits = 0
    /\ streak = 0
    /\ finished = 0
    /\ mstate = "requestState"
    /\ Output = Str0
    /\ Input \in SetupInputs
    /\ retries = 0
    /\ slept = <<>>
    /\ mMessages = <<>>
    /\ mError = FALSE
    /\ cmd = "setupStreamContext"
    /\ msg = NoMsg
    /\ shownBase = Str0
    /\ cancelRequest = <<>>
    /\ cancelled = {}
    /\ quitting = FALSE
    /\ polls = 0
    /\ mConfig \in SetupConfigs
    /\ ~(Input = Str0 /\ mConfig.Prefix = Str0)
    /\ cacheRead \in SetupCacheReads
    /\ toolsErr = FALSE

SetupTurn ==
    /\ cmd = "setupStreamContext"
    /\ LET setup == setupStreamContext(mConfig, cacheRead.ok, cacheRead.messages,
                                       Input, MaxChars(mConfig))
       IN  /\ mMessages' = setup.messages
           /\ msg' = IF setup.err THEN modsError ELSE NoMsg
    /\ cmd' = "none"
    /\ UNCHANGED <<svars, hvars, evars, cvars, mstate, Output, Input, retries, slept,
                   mError, shownBase>>

NextSetup == SetupTurn

SpecSetup == InitSetup /\ [][NextSetup]_vars

\* ------------------------------------------------------------------ claims
\* the texts and the tool calls of a sequence of units, in its order
UnitContents(us) == [i \in 1..Len(us) |-> us[i].Content]
RECURSIVE UnitCalls(_)
UnitCalls(us) == IF us = <<>> THEN <<>> ELSE Head(us).ToolCalls \o UnitCalls(Tail(us))

\* the entries the histories have gained since the round began
RoundMessages == SubSeq(messages, roundBase + 1, Len(messages))
RoundRequest == SubSeq(request, roundBase + 1, Len(request))

\* the step is a CallTools call that ran tools: only it opens a further
\* exchange on the stream
ToolRoundStep == respCh >= 1 /\ respCh' = respCh + 1

\* C1: on a stream whose round is complete with no tool calls, two CallTools
\* calls in a row return the empty list both times and leave the finalized
\* assistant message in both histories exactly once.
C1_CallToolsTwiceAppendsOnce ==
    (streak = 2 /\ done) =>
        /\ ret.op = "CallTools" /\ ret.statuses = <<>>
        /\ RoundMessages = <<toProtoMessage(message)>>
        /\ RoundRequest = <<message>>

\* C2: the CallTools call after a round the backend finished with k >= 1 tool
\* calls returns k statuses and appends exactly the finalized assistant
\* message (the round's text and its k calls) and then the k tool results,
\* in call order, to both histories.
C2_ToolRoundGrowsHistory ==
    [][(ToolRoundStep /\ done /\ gor[respCh].fin)
        => LET units == gor[respCh].out
               calls == UnitCalls(units)
               k == Len(calls)
               n == Len(messages)
               assistant == ApiMessage(RoleAssistant, Concat(UnitContents(units)), calls)
           IN  /\ k >= 1
               /\ Len(ret'.statuses) = k
               /\ Len(messages') = n + k + 1
               /\ SubSeq(messages', 1, n) = messages
               /\ messages'[n + 1] = toProtoMessage(assistant)
               /\ \A i \in 1..k :
                     /\ messages'[n + 1 + i].Role = RoleTool
                     /\ messages'[n + 1 + i].ToolCalls[1].ID = Itoa(calls[i].Index)
               /\ Len(request') = Len(request) + k + 1
               /\ SubSeq(request', 1, Len(request)) = request
               /\ request'[Len(request) + 1] = assistant
               /\ \A i \in 1..k :
                     request'[Len(request) + 1 + i] = fromProtoMessage(messages'[n + 1 + i])
      ]_vars

C2_Witness ==
    /\ respCh = 2
    /\ ret.op = "CallTools"
    /\ Len(ret.statuses) = 1
    /\ Len(messages) = 3
    /\ messages[2].Role = RoleAssistant
    /\ messages[2].Content = <<"a">>
    /\ Len(messages[2].ToolCalls) = 1
    /\ messages[3].Role = RoleTool

BeforeNextNext ==
    /\ ret.op = "CallTools"
    /\ Len(ret.statuses) > 0
    /\ (cmd = "receive" \/ msg.type = "completionOutput")

\* C4, as claimed: after a CallTools call that ran tools the accumulator is
\* empty, the done flag is cleared, and the next Next() returns true (stated
\* here for the runs in which no earlier exchange reports an error late).
C4_NextTrueAfterToolRound ==
    (BeforeNextNext /\ err \in {0, respCh})
        => (message = EmptyMessage /\ ~done /\ StreamNext)

\* C4, amended: a CallTools call that ran tools leaves the accumulator empty
\* and the done flag and the error slot cleared, and opens exactly one new
\* exchange, on the previous request history followed by the finalized
\* assistant message and the tool results; the next Next() returns true
\* unless an exchange has reported an error by then; and the accumulator of
\* the continuation round holds only what that round's exchange handed over.
C4_ToolRoundRestarts ==
    /\ [][ToolRoundStep
           => LET k == Len(message.ToolCalls)
                  n == Len(messages')
                  results == SubSeq(messages', n - k + 1, n)
              IN  /\ message' = EmptyMessage
                  /\ ~done'
                  /\ err' = 0
                  /\ gor[respCh'].pc = "idle"
                  /\ gor'[respCh'].pc = "run"
                  /\ \A r \in Rounds \ {respCh'} : gor'[r] = gor[r]
                  /\ gor'[respCh'].req =
                        request \o <<message>> \o MapSeq(results, fromProtoMessage)
                  /\ request' = gor'[respCh'].req
         ]_vars
    /\ [](BeforeNextNext => (message = EmptyMessage /\ ~done /\ (err = 0 => StreamNext)))
    /\ [](respCh >= 2 =>
            /\ message.Content = Concat(UnitContents(gor[respCh].out))
            /\ message.ToolCalls = UnitCalls(gor[respCh].out))

C4_Witness ==
    /\ respCh = 2
    /\ done
    /\ message.Content = <<"a">>
    /\ Len(request) = 3
    /\ cmd = "receive"

\* the text the receive command has handed on so far: what Update has put
\* into the output, what is on its way to Update, what Current just returned
Shown ==
    Output
    \o (IF msg.type = "completionOutput" THEN msg.content ELSE Str0)
    \o (IF cmd = "receiveCurrent" THEN ret.chunk ELSE Str0)

\* C5: in every round the chunks the successful Current calls returned are
\* the units the round's exchange handed over, in that order, none missing
\* once the round is complete; the accumulated content is their
\* concatenation; and the visible output gains them in the same order.
C5_ChunksInEmissionOrder ==
    respCh >= 1 =>
        /\ chunks = UnitContents(gor[respCh].out)
        /\ message.Content = Concat(chunks)
        /\ done => Senders(respCh) = {}
        /\ Shown = shownBase \o Concat(chunks)

C5_Witness ==
    /\ chunks = << <<"a">>, <<"b">> >>
    /\ Output = <<"a", "b">>
    /\ done

\* C6: once the exchange of the round has ended and nothing it sent is left
\* to drain, Next() returns false.
C6_NextFalseOnceExchangeOver ==
    (respCh >= 1 /\ gor[respCh].pc = "ret" /\ Senders(respCh) = {}) => ~StreamNext

\* C7: once CallTools has returned an empty list for a completed round, Next()
\* returns false, CallTools returns an empty list, and no further exchange is
\* opened on the stream.
C7_FinishedStaysFinished ==
    finished > 0 =>
        /\ ~StreamNext
        /\ NoToolCalls(message)
        /\ ret.op = "CallTools" => ret.statuses = <<>>
        /\ respCh = finished
        /\ \A r \in Rounds : r > finished => gor[r].pc = "idle"

C7_Witness ==
    /\ finished = 2
    /\ streak = 2
    /\ err = 1

\* C8: in the receive step, when Next() has returned false, a non-nil Err()
\* goes to the error handler and CallTools is not called (no tool runs, no
\* history grows), and a nil Err() leads to CallTools; CallTools is not called
\* while Next() would return true.
C8_ErrorOrCallTools ==
    [][/\ (cmd = "receive" /\ cmd' \notin {"receive", "quit"} /\ ~StreamNext) =>
            IF err # 0
            THEN /\ msg'.type \notin {"none", "completionOutput"}
                 /\ messages' = messages
                 /\ request' = request
                 /\ respCh' = respCh
                 /\ ret' = ret
            ELSE /\ msg'.type = "completionOutput"
                 /\ ret'.op = "CallTools"
                 /\ messages' = Append(messages, toProtoMessage(message))
                                \o SubSeq(messages', Len(messages) + 2, Len(messages'))
                 /\ Len(ret'.statuses) = Len(message.ToolCalls)
       /\ (cmd = "receive" /\ (messages' # messages \/ respCh' # respCh)) =>
            (~StreamNext /\ err = 0)
      ]_vars

C8_Witness ==
    /\ msg.type = "completionInput"
    /\ retries = 1
    /\ done
    /\ err # 0
    /\ Len(message.ToolCalls) > 0
    /\ Len(messages) = 1

\* C9: a Close() while the exchange of the round still has units to hand over
\* lets the backend activity stop without a fault.
C9_CloseStopsBackendCleanly ==
    respCh \in closed => \A r \in Rounds : gor[r].pc # "panic"

\* C10: a second Close() succeeds and leaves the stream as the first one did:
\* channel released, done flag set, Next() false.
C10_CloseIdempotent ==
    (ret.op = "Close" /\ ret.again) =>
        (panicked = "none" /\ respCh \in closed /\ done /\ ~StreamNext)

\* the goroutine of some exchange is at the store s.err = err of ollama.go
\* line 83: nothing but the scheduler decides when it is made
ErrWritePending == \E r \in Rounds : ENABLED ChatReturns(r, TRUE)

\* the receive command is at its call of Next(), whose first statement reads
\* s.err (ollama.go line 199)
ErrReadPending == ENABLED receiveNext

\* C11: the channel is the only way the backend activity and the consumer
\* communicate: in no state is the backend about to write a field of the
\* stream that the consumer is about to read or write, with no channel
\* operation between the two accesses.
C11_ChannelOnlyCommunication == ~(ErrWritePending /\ ErrReadPending)

\* C12: every exchange that has been opened, the first of a turn and every
\* continuation, runs under one of the timeout-bound contexts whose cancel
\* handle the orchestrator keeps in its list.
C12_ExchangeUnderKeptContext ==
    \A r \in Rounds : gor[r].pc # "idle" => ExchangeCtx(r) \in Handles

\* a step of the backend activity that takes the goroutine of exchange r out
\* of its send: the send s.respCh <- resp of ollama.go line 104 waits for a
\* receiver only, not for the context, so Chat cannot return from it
BackendUnblocks(r) == (BackendSends \/ BackendReturns) /\ gor'[r].pc # "send"

\* C13: once the program has shut down, every cancel handle kept has been
\* invoked, and a backend activity still sending a unit on a stream's channel
\* can get out of the send and end, though nothing reads the channel again.
C13_ShutdownUnblocksBackend ==
    cmd = "exit" =>
        /\ Handles \subseteq cancelled
        /\ \A r \in Rounds : gor[r].pc = "send" => ENABLED BackendUnblocks(r)

\* C14: Current() does not block: whenever the receive command is at a true
\* Next() its step can be taken, whatever the backend is doing; with no unit
\* ready it returns the 'no content' sentinel and an empty chunk and leaves
\* the accumulator, the done flag, the error slot and both histories as they
\* were; the orchestrator then neither closes the stream nor counts an error
\* or a retry, and polls again.
C14_NoContentRepolls ==
    /\ [](((cmd = "receive" /\ StreamNext) => ENABLED receiveNext))
    /\ [][(cmd = "receive" /\ cmd' = "receiveCurrent" /\ ret'.err = "ErrNoContent")
            => /\ ret'.chunk = Str0
               /\ message' = message
               /\ done' = done
               /\ err' = err
               /\ messages' = messages
               /\ request' = request
         ]_vars
    /\ [][(cmd = "receiveCurrent" /\ ret.err = "ErrNoContent" /\ cmd' # cmd)
            => /\ msg' = completionOutput(Str0, TRUE)
               /\ closed' = closed
               /\ done' = done
               /\ retries' = retries
         ]_vars
    /\ [][(msg = completionOutput(Str0, TRUE) /\ msg' # msg)
            => /\ cmd' = "receive"
               /\ Output' = Output
               /\ mstate' = mstate
               /\ mError' = mError
         ]_vars

C14_Witness ==
    /\ cmd = "receive"
    /\ ret.op = "Current"
    /\ ret.err = "ErrNoContent"
    /\ msg.type = "none"
    /\ closed = {}
    /\ retries = 0
    /\ ~done

\* C15: no call of Current changes either history; the call that receives
\* the unit with Done set only sets the done flag and folds the unit into
\* the accumulator; as long as Current is the stream's last call the round
\* has added nothing to the histories, and the finalized assistant message
\* enters them in the CallTools call that follows.
C15_CurrentLeavesHistory ==
    /\ [][ClientPoll
            => /\ messages' = messages
               /\ request' = request
               /\ (done' /\ ~done) =>
                     \E r \in Senders(respCh) :
                        /\ gor[r].unit.Done
                        /\ message' = Fold(message, gor[r].unit)
         ]_vars
    /\ [](ret.op = "Current" => (RoundMessages = <<>> /\ RoundRequest = <<>>))
    /\ [][(ClientCallTools /\ done)
            => /\ SubSeq(messages', 1, Len(messages) + 1)
                    = Append(messages, toProtoMessage(message))
               /\ SubSeq(request', 1, Len(request) + 1) = Append(request, message)
         ]_vars

C15_Witness ==
    /\ ret.op = "Current"
    /\ ret.chunk = <<"b">>
    /\ done
    /\ message.Content = <<"a", "b">>
    /\ messages = <<UserMessage>>
    /\ Len(request) = 1

\* what identifies a message of the history: a tool result by its role and
\* the call it answers, any other message by all of it
MessageKey(m) ==
    IF m.Role = RoleTool THEN <<RoleTool, m.ToolCalls[1].ID>> ELSE m

\* the messages the rounds r, r+1, ... of the stream stand for: of each
\* round the assistant message made of what its exchange handed over, then
\* one tool result for each of its calls, in call order
RECURSIVE RoundsKeys(_)
RoundsKeys(r) ==
    IF r > respCh THEN <<>>
    ELSE LET units == gor[r].out
             calls == UnitCalls(units)
         IN  <<toProtoMessage(ApiMessage(RoleAssistant,
                                         Concat(UnitContents(units)), calls))>>
             \o [i \in 1..Len(calls) |-> <<RoleTool, Itoa(calls[i].Index)>>]
             \o RoundsKeys(r + 1)

\* the history the setup of the turn made, which seeded the request
SeedHistory ==
    setupStreamContext(mConfig, cacheRead.ok, cacheRead.messages, Input,
                       MaxChars(mConfig)).messages

\* C16: when CallTools has returned an empty list the orchestrator's history
\* is the stream's final history, which is the history that seeded the
\* request followed, round by round, by the round's assistant message and
\* its tool results; the completion message without a stream is emitted and
\* the done state reached, and the stream is not called again.
C16_EmptyCallToolsEndsTurn ==
    /\ []((ret.op = "CallTools" /\ ret.statuses = <<>>)
            => /\ mMessages = Messages
               /\ SubSeq(mMessages, 1, Len(SeedHistory)) = SeedHistory
               /\ fromProtoMessages(SeedHistory) = gor[1].req
               /\ MapSeq(SubSeq(mMessages, Len(SeedHistory) + 1, Len(mMessages)),
                         MessageKey) = RoundsKeys(1)
               /\ \/ (msg = completionOutput(Str0, FALSE) /\ cmd = "none")
                  \/ (msg.type = "none" /\ mstate = "doneState"
                      /\ cmd \in {"quit", "exit"}))
    /\ [][(ret.op = "CallTools" /\ ret.statuses = <<>>)
            => (ret' = ret /\ messages' = messages /\ mMessages' = mMessages
                /\ respCh' = respCh)
         ]_vars

C16_Witness ==
    /\ ret.op = "CallTools"
    /\ ret.statuses = <<>>
    /\ respCh = 2
    /\ Len(mMessages) = Len(SeedHistory) + 3
    /\ mstate = "doneState"
    /\ cmd = "exit"

\* the only exchange of the stream has handed over one unit, which signals
\* done with no text and no tool call, and no exchange has reported an error
EmptyTurn ==
    /\ respCh = 1
    /\ gor[1].out = <<Unit(Str0, <<>>, TRUE)>>
    /\ err = 0

\* C17: a backend that signals done with no tool calls and no text gives a
\* completed empty turn: the visible output gains nothing, CallTools returns
\* an empty list, the orchestrator reaches the done state, no error is
\* recorded and no retry is counted.
C17_EmptyTurnCompletes ==
    /\ [](EmptyTurn
            => /\ done
               /\ Shown = shownBase
               /\ Output = shownBase
               /\ ~mError
               /\ mstate # "errorState"
               /\ msg.type \in {"none", "completionOutput"}
               /\ cmd \in {"quit", "exit"} => mstate = "doneState")
    /\ [][(EmptyTurn /\ cmd = "receive" /\ cmd' \notin {"receive", "quit"})
            => /\ ret'.op = "CallTools"
               /\ ret'.statuses = <<>>
               /\ msg' = completionOutput(Str0, FALSE)
               /\ retries' = retries
               /\ respCh' = respCh
         ]_vars
    /\ [][(EmptyTurn /\ msg = completionOutput(Str0, FALSE) /\ msg' # msg)
            => (mstate' = "doneState" /\ cmd' = "quit" /\ Output' = Output)
         ]_vars

C17_Witness ==
    /\ EmptyTurn
    /\ ret.op = "CallTools"
    /\ ret.statuses = <<>>
    /\ mstate = "doneState"
    /\ cmd = "exit"
    /\ Output = Str0
    /\ retries = 0
    /\ mMessages[Len(mMessages)] = ProtoMessage(RoleAssistant, Str0, <<>>)

\* the setup of the turn has been made and succeeded
SetupDone == cmd = "none" /\ msg.type = "none" /\ mstate = "requestState"

\* the history H the setup loaded: what the cache holds if it is read
LoadedHistory == IF readsCache(mConfig) THEN cacheRead.messages ELSE <<>>

\* the user message the setup constructs from the new content
ConstructedUserMessage ==
    ProtoMessage(RoleUser, userContent(mConfig, Input, MaxChars(mConfig)), <<>>)

\* C18: a successful setup yields a history whose last element is the
\* constructed user message and whose prefix is the loaded history H, as it
\* was and in its order; with H non-empty nothing else is in it, whatever
\* format and role are configured.
C18_SetupKeepsHistory ==
    SetupDone =>
        /\ Len(mMessages) >= Len(LoadedHistory) + 1
        /\ mMessages[Len(mMessages)] = ConstructedUserMessage
        /\ SubSeq(mMessages, 1, Len(LoadedHistory)) = LoadedHistory
        /\ LoadedHistory # <<>> => mMessages = Append(LoadedHistory,
                                                     ConstructedUserMessage)

C18_Witness ==
    /\ SetupDone
    /\ LoadedHistory = SavedHistory
    /\ mConfig.Format /\ mConfig.FormatText = <<"f">>
    /\ mConfig.Role = "shell"
    /\ mConfig.Prefix = <<"p">>
    /\ Len(mMessages) = 3

\* C19: with an empty loaded history a successful setup yields exactly the
\* format instruction (if formatting is on and its text is not empty), then
\* one system message for each entry of the configured role in the order of
\* the role's definition, then the user message.
C19_NewConversationPreamble ==
    (SetupDone /\ LoadedHistory = <<>>) =>
        LET instruction ==
                IF mConfig.Format /\ mConfig.FormatText # Str0
                THEN <<ProtoMessage(RoleSystem, mConfig.FormatText, <<>>)>>
                ELSE <<>>
            entries == IF mConfig.Role = "" THEN <<>> ELSE Roles[mConfig.Role]
            role == [i \in 1..Len(entries) |->
                        ProtoMessage(RoleSystem, loadMsg(entries[i]), <<>>)]
        IN  mMessages = instruction \o role \o <<ConstructedUserMessage>>

C19_Witness ==
    /\ SetupDone
    /\ LoadedHistory = <<>>
    /\ Len(mMessages) = 4
    /\ mMessages[1] = ProtoMessage(RoleSystem, <<"f">>, <<>>)
    /\ mMessages[2] = ProtoMessage(RoleSystem, <<"1">>, <<>>)
    /\ mMessages[3] = ProtoMessage(RoleSystem, <<"2">>, <<>>)
    /\ mMessages[4].Role = RoleUser

\* C20: a cache read that fails during the setup of a turn makes the setup
\* return the fatal error: the step opens no exchange and leaves the stream
\* alone, m.messages gets no user message, the error reaches Update, which
\* ends in the error state, and no exchange is opened afterwards.
C20_CacheReadFailureIsFatal ==
    /\ [][(startCompletionCmd /\ readsCache(mConfig) /\ ~cacheRead'.ok)
            => /\ msg' = modsError
               /\ mMessages' = <<>>
               /\ respCh' = respCh
               /\ gor' = gor
               /\ request' = request
               /\ messages' = messages
         ]_vars
    /\ [](~cacheRead.ok
            => /\ mMessages = <<>>
               /\ \/ msg = modsError
                  \/ (mstate = "errorState" /\ mError /\ cmd \in {"quit", "exit"}))
    /\ [][~cacheRead.ok
            => /\ respCh' = respCh
               /\ \A r \in Rounds : gor[r].pc = "idle" => gor'[r].pc = "idle"
         ]_vars

C20_Witness ==
    /\ readsCache(mConfig)
    /\ ~cacheRead.ok
    /\ respCh = 0
    /\ mstate = "errorState"
    /\ cmd = "exit"
    /\ mMessages = <<>>
    /\ cancelled = {1}

\* utf8.RuneCountInString: the number of characters of a string, a byte that
\* is not part of a whole encoding counting as one
RECURSIVE RuneCount(_)
RuneCount(t) ==
    IF t = <<>> THEN 0
    ELSE IF Len(t) >= 2 /\ t[1] = "C3" /\ t[2] = "A9"
    THEN 1 + RuneCount(SubSeq(t, 3, Len(t)))
    ELSE 1 + RuneCount(Tail(t))

IsPrefix(a, b) == Len(a) <= Len(b) /\ SubSeq(b, 1, Len(a)) = a

\* the content of the user message the setup appended
UserContent == mMessages[Len(mMessages)].Content

\* C21: with truncation enabled, combined content longer than the limit
\* becomes a user message of exactly limit characters that is a prefix of the
\* combined content, and content no longer than the limit is unchanged; with
\* truncation disabled the user message is the full combined content.
C21_TruncatesToLimitCharacters ==
    SetupDone =>
        LET combined == combinedContent(mConfig, Input)
            limit == MaxChars(mConfig)
        IN  IF mConfig.NoLimit THEN UserContent = combined
            ELSE IF RuneCount(combined) > limit
            THEN RuneCount(UserContent) = limit /\ IsPrefix(UserContent, combined)
            ELSE UserContent = combined

\* C22: for every prefix, the empty one included, and every content, the
\* user message the setup builds before truncation is the prefix and the
\* content combined with no leading and no trailing whitespace.
C22_UserMessageTrimmed ==
    SetupDone =>
        LET combined == combinedContent(mConfig, Input)
        IN  /\ combined = TrimSpace(combined)
            /\ mConfig.NoLimit => UserContent = combined

\* C23: with MaxRetries = 3 the first three consecutive fatal errors each
\* cause a backoff sleep and a resubmission, the sleeps being 200ms, 400ms
\* and 800ms in that order, and only the fourth fatal error is terminal: after
\* k <= 3 fatal errors k sleeps have been made, and there is no fifth attempt.
C23_ThreeSleepsThenTerminal ==
    mConfig.MaxRetries = 3 =>
        /\ retries <= 4
        /\ retries <= 3 => slept = SubSeq(<<200, 400, 800>>, 1, retries)
        /\ retries = 4 => slept = <<200, 400, 800>>

Max(a, b) == IF a >= b THEN a ELSE b

\* C24: each fatal turn error increments the attempt counter; while the
\* incremented counter is below MaxRetries the driver sleeps 100ms x 2^counter
\* and resubmits the same input, which Update starts as a fresh turn; once
\* the counter has reached MaxRetries the error is returned with no sleep and
\* no resubmission; so under every MaxRetries >= 0 a backend that always
\* fails is given at most max(1, MaxRetries) attempts and the program ends
\* with the terminal error (or by the quit key).
C24_RetryDriverTerminates ==
    /\ [][retries' # retries
            => /\ retries' = retries + 1
               /\ IF retries' < mConfig.MaxRetries
                  THEN /\ slept' = Append(slept, 100 * 2^retries')
                       /\ msg' = completionInput(Input)
                  ELSE /\ slept' = slept
                       /\ msg' = modsError
         ]_vars
    /\ [][(retries > 0 /\ msg.type = "completionInput" /\ msg' # msg)
            => /\ cmd' = "startCompletionCmd"
               /\ Input' = Input
               /\ msg.content = Input
               /\ retries' = retries
         ]_vars
    /\ []((retries > 0 /\ retries >= mConfig.MaxRetries)
            => \/ msg = modsError
               \/ (mError /\ mstate = "errorState" /\ cmd \in {"quit", "exit"}))
    /\ [](/\ retries <= Max(1, mConfig.MaxRetries)
          /\ Len(cancelRequest) <= Max(1, mConfig.MaxRetries))
    /\ <>(cmd = "exit" /\ (mError \/ mstate = "doneState"))

C24_Witness ==
    /\ mConfig.MaxRetries = 4
    /\ retries = 4
    /\ slept = <<200, 400, 800>>
    /\ Len(cancelRequest) = 4
    /\ mError
    /\ cmd = "exit"

\* C25: a setup error - the model cannot be resolved, the tools cannot be
\* listed, the cache read fails, or the configured role does not exist - is
\* the message of the command that met it: no exchange is opened, the retry
\* counter is not incremented and nothing is slept; Update on the error
\* records it, enters the error state and quits; and nothing is resubmitted
\* afterwards.
C25_SetupErrorsBypassRetry ==
    /\ [][startCompletionCmd
            => LET unresolved == mConfig.Model \notin mConfig.Models
                   loaded == IF ~mConfig.NoCache /\ mConfig.cacheReadFromID # ""
                             THEN cacheRead'.messages ELSE <<>>
                   noRole == /\ loaded = <<>>
                             /\ mConfig.Role # ""
                             /\ mConfig.Role \notin DOMAIN mConfig.Roles
               IN  IF unresolved \/ toolsErr' \/ ~cacheRead'.ok \/ noRole
                   THEN /\ msg' = modsError
                        /\ cmd' = "none"
                        /\ retries' = retries
                        /\ slept' = slept
                        /\ respCh' = respCh
                        /\ gor' = gor
                        /\ request' = request
                   ELSE /\ msg' = NoMsg
                        /\ cmd' = "receive"
                        /\ gor'[1].pc = "run"
         ]_vars
    /\ [][(msg = modsError /\ msg' # msg)
            => /\ mError'
               /\ mstate' = "errorState"
               /\ cmd' = "quit"
               /\ msg' = NoMsg
               /\ retries' = retries
               /\ slept' = slept
         ]_vars
    /\ [][mError
            => /\ cmd' \in {"quit", "exit"}
               /\ msg' = NoMsg
               /\ mstate' = "errorState"
               /\ retries' = retries
               /\ slept' = slept
               /\ respCh' = respCh
         ]_vars

C25_Witness ==
    /\ mConfig.Role = "nobody"
    /\ mConfig.MaxRetries = 3
    /\ ~toolsErr
    /\ cacheRead.ok
    /\ mError
    /\ mstate = "errorState"
    /\ cmd = "exit"
    /\ retries = 0
    /\ slept = <<>>
    /\ respCh = 0

\* C26: when the callback fails for one of the pending tool calls the turn
\* goes on: every call is executed, in order, the failed one included; each
\* gives a status and a tool-role message, which for the failed call is marked
\* as an error; all the messages enter both histories; the error slot is
\* empty; no fault is raised; and the continuation exchange is opened on the
\* request history that holds all the results.
C26_ToolFailureKeepsTurn ==
    [][(ToolRoundStep /\ \E i \in 1..Len(ret'.statuses) : ret'.statuses[i].Err)
        => LET calls == message.ToolCalls
               k == Len(calls)
               n == Len(messages')
               q == Len(request')
           IN  /\ Len(ret'.statuses) = k
               /\ Len(ret'.events) = 2 * k
               /\ n = Len(messages) + k + (IF done THEN 1 ELSE 0)
               /\ q = Len(request) + k + (IF done THEN 1 ELSE 0)
               /\ SubSeq(messages', 1, Len(messages)) = messages
               /\ SubSeq(request', 1, Len(request)) = request
               /\ \A i \in 1..k :
                     /\ ret'.events[2 * i - 1] = [ev |-> "call", index |-> calls[i].Index]
                     /\ ret'.events[2 * i] = [ev |-> "return", index |-> calls[i].Index]
                     /\ messages'[n - k + i].Role = RoleTool
                     /\ messages'[n - k + i].ToolCalls[1].ID = Itoa(calls[i].Index)
                     /\ messages'[n - k + i].ToolCalls[1].IsError = ret'.statuses[i].Err
                     /\ request'[q - k + i].Role = RoleTool
                     /\ request'[q - k + i].Content = messages'[n - k + i].Content
               /\ err' = 0
               /\ panicked' = panicked
               /\ gor'[respCh'].pc = "run"
               /\ gor'[respCh'].req = request'
      ]_vars

C26_Witness ==
    /\ ret.op = "CallTools"
    /\ Len(ret.statuses) = 2
    /\ ~ret.statuses[1].Err /\ ret.statuses[2].Err
    /\ respCh = 2
    /\ gor[2].pc = "run"
    /\ Len(gor[2].req) = 4
    /\ gor[2].req[3].Content = <<"result">>
    /\ gor[2].req[4].Content = <<"tool error">>
    /\ err = 0
    /\ panicked = "none"

\* the position of the nearest assistant message before position i of the
\* history h (0: there is none)
PrecedingAssistant(h, i) ==
    LET before == {j \in 1..(i - 1) : h[j].Role = RoleAssistant}
    IN  IF before = {} THEN 0 ELSE CHOOSE j \in before : \A l \in before : l <= j

\* C27: in every reachable history each tool-role message carries a
\* tool_call_id, and the id identifies exactly one tool call of the nearest
\* preceding assistant message, also when that message carries several calls.
C27_ToolCallIdIdentifiesCall ==
    \A i \in 1..Len(messages) :
        messages[i].Role = RoleTool =>
            LET a == PrecedingAssistant(messages, i)
            IN  /\ Len(messages[i].ToolCalls) = 1
                /\ messages[i].ToolCalls[1].ID # ""
                /\ a > 0
                /\ Cardinality({c \in 1..Len(messages[a].ToolCalls) :
                                   messages[a].ToolCalls[c].ID
                                       = messages[i].ToolCalls[1].ID}) = 1

\* C28: the visible output only grows: every step leaves the previous output
\* as a prefix of the new one; the output changes only when Update appends a
\* chunk it was handed; and a fatal error, a retry, the recording of the
\* terminal error and a quit leave the text streamed so far in place.
C28_OutputOnlyGrows ==
    /\ [][IsPrefix(Output, Output')]_vars
    /\ [][Output' # Output
            => \/ /\ msg.type = "completionOutput"
                  /\ msg.content # Str0
                  /\ Output' = Output \o msg.content
               \/ /\ msg.type = "completionInput"
                  /\ mConfig.IncludePrompt > 0 \/ mConfig.IncludePromptArgs
         ]_vars
    /\ [][(\/ retries' # retries
           \/ (msg.type = "modsError" /\ msg' # msg)
           \/ cmd' \in {"quit", "exit"})
            => Output' = Output
         ]_vars

C28_Witness ==
    /\ Output = <<"a", "a">>
    /\ retries = mConfig.MaxRetries
    /\ retries >= 2
    /\ mError
    /\ cmd = "exit"

\* C29: the stream's histories are append-only: every stream operation
\* (Next and Current in a poll, CallTools, Close) leaves the entries of the
\* request history and of the message log as they were and in their order,
\* adding at the end only; so the history each continuation exchange sends
\* begins with the history the exchange before it sent, and the request
\* history at any time begins with what the latest exchange sent.
C29_HistoryAppendOnly ==
    /\ [][IsPrefix(request, request') /\ IsPrefix(messages, messages')]_vars
    /\ [][(ClientPoll \/ ClientClose) => (request' = request /\ messages' = messages)]_vars
    /\ [](\A r \in 2..respCh :
            /\ IsPrefix(gor[r - 1].req, gor[r].req)
            /\ Len(gor[r].req) > Len(gor[r - 1].req))
    /\ [](respCh >= 1 => IsPrefix(gor[respCh].req, request))

C29_Witness ==
    /\ respCh = 2
    /\ ret.op = "Close"
    /\ Len(gor[2].req) = 3
    /\ gor[1].req = <<gor[2].req[1]>>
    /\ gor[2].req[2].Role = RoleAssistant
    /\ gor[2].req[3].Role = RoleTool
    /\ request = gor[2].req

\* C30: after every stream operation, in any sequence of polls and CallTools
\* calls, the request history and the message log have the same length and
\* agree position by position in role and content: what Messages() reports is
\* what the next exchange sends.
C30_HistoriesAgree ==
    /\ Len(request) = Len(Messages)
    /\ \A i \in 1..Len(request) :
          /\ request[i].Role = Messages[i].Role
          /\ request[i].Content = Messages[i].Content
    /\ (respCh >= 2 /\ ret.op = "CallTools" /\ Len(ret.statuses) > 0) =>
          /\ Len(gor[respCh].req) = Len(Messages)
          /\ \A i \in 1..Len(Messages) :
                /\ gor[respCh].req[i].Role = Messages[i].Role
                /\ gor[respCh].req[i].Content = Messages[i].Content

C30_Witness ==
    /\ respCh = 2
    /\ ret.op = "Current"
    /\ ret.chunk = <<"a">>
    /\ Len(Messages) = 3
    /\ Messages[2] = ProtoMessage(RoleAssistant, Str0, <<ProtoToolCall("1", "tool", FALSE)>>)
    /\ Messages[3].Role = RoleTool
    /\ request[3].Role = RoleTool
    /\ request[3].Content = <<"tool error">>

\* C31: a finished round's backend activity cannot affect the continuation
\* round: once CallTools has cleared the error slot and opened the next
\* exchange, the error Next() and Err() read is nil or the error of the
\* exchange now open, never one a previous exchange reported late, and the
\* only unit Current() can receive is one the exchange now open is sending.
C31_FinishedRoundIsolated ==
    /\ Err # 0 => Err = respCh
    /\ \A r \in Senders(respCh) : r = respCh

\* the history the cache gives the setup of an attempt: what the read loaded,
\* or nothing when no conversation is read (stream.go lines 15-16)
LoadedByAttempt == IF ~mConfig.NoCache /\ mConfig.cacheReadFromID # ""
                   THEN cacheRead.messages ELSE <<>>

\* client.Request has just been called: no stream call has followed it
AttemptOpened == ret.op = "Request" /\ cmd = "receive"

\* C32: a retried attempt is a fresh turn: whenever an attempt, the first or
\* a resubmitted one, has opened its request, the orchestrator's history, the
\* stream's history and the request history are one and the same history; it
\* ends with the new user message, and what precedes that message is the
\* history the cache read of this attempt loaded or, when that is empty,
\* system messages only: no user, assistant or tool message of a failed
\* attempt is in it, however many attempts have failed.
C32_RetryIsFreshTurn ==
    AttemptOpened =>
        LET h == mMessages
            front == SubSeq(h, 1, Len(h) - 1)
        IN  /\ Len(h) >= 1
            /\ messages = h
            /\ request = [i \in 1..Len(h) |->
                             ApiMessage(h[i].Role, h[i].Content, <<>>)]
            /\ h[Len(h)].Role = RoleUser
            /\ h[Len(h)].Content = Input
            /\ IF LoadedByAttempt # <<>>
               THEN front = LoadedByAttempt
               ELSE \A i \in 1..Len(front) : front[i].Role = RoleSystem
            /\ message = EmptyMessage

\* a resubmitted attempt has opened its request after an attempt that ran a
\* tool round (its tool call made a timeout context of its own) and failed:
\* the stream of that attempt held an assistant and a tool message
C32_Witness ==
    /\ AttemptOpened
    /\ retries >= 1
    /\ Len(cancelRequest) >= 3
    /\ nunits >= 1
    /\ mMessages = <<ProtoMessage(RoleUser, Input, <<>>)>>

\* Update is about to handle a message that puts the state back to request
\* or response, or that makes it return a command that polls the stream
\* (the receive command, or the command that starts a completion and polls)
ResumingUpdate ==
    \/ UpdateCompletionOutput /\ (mstate' = "responseState" \/ cmd' = "receive")
    \/ UpdateCompletionInput
           /\ (mstate' = "requestState" \/ cmd' = "startCompletionCmd")

\* C33: the finished and the errored state are terminal: once the state is
\* done or error (after the completion of the turn, a terminal error or the
\* quit key), no message still on its way to Update (a late chunk, the text
\* of a late tool round, a late retry input) puts the state back to request
\* or response or schedules another poll of the stream.
C33_TerminalStatesStay ==
    mstate \in {"doneState", "errorState"} => ~ENABLED ResumingUpdate

\* C34: a stream has a single consumer at all times: at most one receive
\* command is outstanding on the stream in use, and it is the one that is
\* running; while the message of a receive command is on its way to Update
\* none is outstanding (Update answers a completion message that carries the
\* stream with exactly one follow-up receive), and when a retry resubmits the
\* input the stream of the failed attempt is left with no receive command,
\* so that no two of Next, Current and CallTools run at once on one stream.
C34_SingleConsumer ==
    /\ polls \in {0, 1}
    /\ cmd \in {"receive", "receiveCurrent"} => polls = 1
    /\ msg.type # "none" => polls = 0
    /\ cmd = "startCompletionCmd" => polls = 0

\* after a retry has abandoned the stream of the failed attempt, the stream
\* of the resubmitted attempt has been polled and Update has answered the
\* completion message with the follow-up receive, which is the only one
C34_Witness ==
    /\ retries >= 1
    /\ ret.op = "Current"
    /\ cmd = "receive"
    /\ polls = 1
    /\ msg.type = "none"

====
